---- MODULE Spec2Model ----
(***************************************************************************)
(* Model of scripts/ai-reviewer.py: the pull-request review script.        *)
(* Text is modelled as sequences of one-character strings wherever the     *)
(* code inspects characters (paths, file names, the model's answer).       *)
(***************************************************************************)
EXTENDS Integers, Sequences, FiniteSets, TLC

VARIABLES
    pc,               \* position of main(): the step it executes next
    env,              \* os.getenv: GEMINI_API_KEY and GITHUB_TOKEN
    event,            \* what the file at GITHUB_EVENT_PATH holds
    fs,               \* the working tree os.walk(".") traverses
    exercise_content, \* main's exercise_content
    commits,          \* main's commits, as returned by get_pr_commits
    idx,              \* 1-based position of the for loop over commits
    files,            \* main's files for the commit under review
    prompt,           \* main's prompt for the commit under review
    all_feedback,     \* main's all_feedback
    fb_from,          \* history: for each feedback entry, the position of its commit
    calls,            \* history: the network calls issued so far, oldest first
    posted,           \* history: the bodies handed to requests.post, oldest first
    file_path,        \* argument of a stand-alone should_ignore_file call
    verdict           \* its result ("unset" before the call)

vars == << pc, env, event, fs, exercise_content, commits, idx, files, prompt,
           all_feedback, fb_from, calls, posted, file_path, verdict >>

-----------------------------------------------------------------------------
(* Configuration                                                           *)

SUPPORTED_EXTENSIONS ==
    { <<".", "j", "s">>,
      <<".", "j", "s", "x">>,
      <<".", "t", "s">>,
      <<".", "t", "s", "x">>,
      <<".", "m", "j", "s">>,
      <<".", "c", "j", "s">>,
      <<".", "v", "u", "e">>,
      <<".", "s", "v", "e", "l", "t", "e">>,
      <<".", "a", "s", "t", "r", "o">>,
      <<".", "c", "s", "s">>,
      <<".", "s", "c", "s", "s">>,
      <<".", "s", "a", "s", "s">>,
      <<".", "l", "e", "s", "s">>,
      <<".", "s", "t", "y", "l">>,
      <<".", "h", "t", "m", "l">>,
      <<".", "h", "t", "m">>,
      <<".", "p", "u", "g">>,
      <<".", "e", "j", "s">>,
      <<".", "h", "a", "n", "d", "l", "e", "b", "a", "r", "s">>,
      <<".", "h", "b", "s">>,
      <<".", "j", "s", "o", "n">>,
      <<".", "g", "o">>,
      <<".", "j", "a", "v", "a">>,
      <<".", "c", "p", "p">>,
      <<".", "c">>,
      <<".", "m", "d">> }

IGNORE_DIRS ==
    { <<".", "g", "i", "t">>,
      <<".", "g", "i", "t", "h", "u", "b">>,
      <<".", "v", "s", "c", "o", "d", "e">>,
      <<".", "i", "d", "e", "a">>,
      <<"n", "o", "d", "e", "_", "m", "o", "d", "u", "l", "e", "s">>,
      <<"b", "o", "w", "e", "r", "_", "c", "o", "m", "p", "o", "n", "e", "n", "t", "s">>,
      <<"d", "i", "s", "t">>,
      <<"b", "u", "i", "l", "d">>,
      <<"o", "u", "t">>,
      <<"c", "o", "v", "e", "r", "a", "g", "e">>,
      <<"_", "_", "p", "y", "c", "a", "c", "h", "e", "_", "_">>,
      <<"v", "e", "n", "v">>,
      <<"b", "i", "n">>,
      <<"o", "b", "j">>,
      <<".", "n", "e", "x", "t">>,
      <<".", "n", "u", "x", "t">>,
      <<".", "a", "s", "t", "r", "o">> }


-----------------------------------------------------------------------------
(* String helpers, as Python's str and os.path compute them                *)

\* sub in s
Contains(s, sub) ==
    \E i \in 1..(Len(s) - Len(sub) + 1) : SubSeq(s, i, i + Len(sub) - 1) = sub

\* s.startswith(pre)
StartsWith(s, pre) ==
    /\ Len(pre) <= Len(s)
    /\ SubSeq(s, 1, Len(pre)) = pre

\* s.rfind(ch), 1-based; 0 when ch does not occur
RFind(s, ch) ==
    IF \E i \in 1..Len(s) : s[i] = ch
    THEN CHOOSE i \in 1..Len(s) : s[i] = ch /\ \A j \in (i + 1)..Len(s) : s[j] # ch
    ELSE 0

\* os.path.splitext(p)[1] on POSIX: the suffix from the last dot, when that dot
\* lies after the last "/" and some character between them is not a dot
Splitext(p) ==
    LET sepIndex == RFind(p, "/")
        dotIndex == RFind(p, ".")
    IN  IF /\ dotIndex > sepIndex
           /\ \E k \in (sepIndex + 1)..(dotIndex - 1) : p[k] # "."
        THEN SubSeq(p, dotIndex, Len(p))
        ELSE << >>

-----------------------------------------------------------------------------
(* should_ignore_file                                                      *)

InIgnoredDirSubstring(path) ==
    \E ignore_dir \in IGNORE_DIRS : Contains(path, ignore_dir)

\* the loop over IGNORE_DIRS
InIgnoredDir(path) ==
    \E ignore_dir \in IGNORE_DIRS :
        \/ Contains(path, <<"/">> \o ignore_dir \o <<"/">>)
        \/ StartsWith(path, ignore_dir \o <<"/">>)

should_ignore_file(path) ==
    IF InIgnoredDir(path)
    THEN TRUE
    ELSE Splitext(path) \notin SUPPORTED_EXTENSIONS

-----------------------------------------------------------------------------
(* Bounds of the model                                                     *)

MaxCommits == 2   \* longest commit list the host returns
MaxFiles == 2     \* most changed files in one commit
MaxDirFiles == 2  \* most files in one directory of the working tree
MaxFrags == 4     \* most fragments a probed path is built from

-----------------------------------------------------------------------------
(* Values the environment can supply                                       *)

None == "<None>"

\* os.getenv: unset, set to the empty string, or set
KeyValues == { None, "", "secret" }

Envs == [ gemini_key : KeyValues, github_token : KeyValues ]

\* the event payload: a pull-request event, another event, or no readable file
Events == { "pull_request", "push", "unreadable" }

Min(a, b) == IF a <= b THEN a ELSE b

\* sequences over S without repetition, of length at most n
InjSeqs(S, n) ==
    { s \in UNION { [1..k -> S] : k \in 0..n } :
        \A i, j \in DOMAIN s : i # j => s[i] # s[j] }

\* the concatenation of a sequence of sequences
RECURSIVE Flatten(_)
Flatten(ss) ==
    IF ss = << >> THEN << >> ELSE Head(ss) \o Flatten(Tail(ss))

-----------------------------------------------------------------------------
(* The working tree and the task description (main, section 3)             *)

UpperCase == <<"A", "B", "C", "D", "E", "F", "G", "H", "I", "J", "K", "L", "M",
               "N", "O", "P", "Q", "R", "S", "T", "U", "V", "W", "X", "Y", "Z">>
LowerCase == <<"a", "b", "c", "d", "e", "f", "g", "h", "i", "j", "k", "l", "m",
               "n", "o", "p", "q", "r", "s", "t", "u", "v", "w", "x", "y", "z">>

\* str.lower()
Lower(s) ==
    [ i \in DOMAIN s |->
        IF \E k \in DOMAIN UpperCase : UpperCase[k] = s[i]
        THEN LowerCase[CHOOSE k \in DOMAIN UpperCase : UpperCase[k] = s[i]]
        ELSE s[i] ]

\* the list file.lower() is looked up in
TaskFileNames ==
    { <<"r", "e", "a", "d", "m", "e", ".", "m", "d">>,
      <<"t", "a", "s", "k", ".", "m", "d">>,
      <<"e", "x", "e", "r", "c", "i", "s", "e", ".", "m", "d">>,
      <<"a", "s", "s", "i", "g", "n", "m", "e", "n", "t", ".", "m", "d">> }

\* files a directory can hold: name, whether open/read succeeds, and the text
TreeFiles ==
    { [ name |-> <<"R", "E", "A", "D", "M", "E", ".", "m", "d">>, readable |-> TRUE, text |-> "Build a sign-up form" ],
      [ name |-> <<"T", "A", "S", "K", ".", "m", "d">>, readable |-> FALSE, text |-> "" ],
      [ name |-> <<"e", "x", "e", "r", "c", "i", "s", "e", ".", "m", "d">>, readable |-> TRUE, text |-> "" ],
      [ name |-> <<"a", "s", "s", "i", "g", "n", "m", "e", "n", "t", ".", "m", "d">>, readable |-> TRUE, text |-> "Style the page" ],
      [ name |-> <<"i", "n", "d", "e", "x", ".", "h", "t", "m", "l">>, readable |-> TRUE, text |-> "<form></form>" ] }

DirListings == InjSeqs(TreeFiles, MaxDirFiles)

\* what the innermost or last directory holds
LeafListings ==
    { << >>,
      << [ name |-> <<"R", "E", "A", "D", "M", "E", ".", "m", "d">>, readable |-> TRUE, text |-> "Build a sign-up form" ] >>,
      << [ name |-> <<"T", "A", "S", "K", ".", "m", "d">>, readable |-> FALSE, text |-> "" ],
         [ name |-> <<"a", "s", "s", "i", "g", "n", "m", "e", "n", "t", ".", "m", "d">>, readable |-> TRUE, text |-> "Style the page" ] >> }

RootDir == 1

\* a tree of three directories: "." holding two directories side by side
FlatTree(n, f1, f2, f3) ==
    << [ name |-> <<".">>, dirs |-> <<2, 3>>, files |-> f1 ],
       [ name |-> n, dirs |-> << >>, files |-> f2 ],
       [ name |-> <<"d", "o", "c", "s">>, dirs |-> << >>, files |-> f3 ] >>

\* a tree of three directories: "." holding one that holds another
DeepTree(n, f1, f2, f3) ==
    << [ name |-> <<".">>, dirs |-> <<2>>, files |-> f1 ],
       [ name |-> n, dirs |-> <<3>>, files |-> f2 ],
       [ name |-> <<"d", "o", "c", "s">>, dirs |-> << >>, files |-> f3 ] >>

SubDirNames == { <<"s", "r", "c">>, <<"n", "o", "d", "e", "_", "m", "o", "d", "u", "l", "e", "s">> }

\* dirs[:] = [d for d in dirs if d not in IGNORE_DIRS]
PruneDirsNone(tree, ds) == ds

PruneDirs(tree, ds) ==
    SelectSeq(ds, LAMBDA d : tree[d].name \notin IGNORE_DIRS)

\* os.walk("."): the directories in the order they are yielded, top-down, each
\* directory's kept sub-directories visited in listing order before its siblings
RECURSIVE Walk(_, _)
Walk(tree, d) ==
    LET kept == PruneDirs(tree, tree[d].dirs)
    IN  <<d>> \o Flatten([ i \in DOMAIN kept |-> Walk(tree, kept[i]) ])

\* for file in files: the first matching name whose read succeeds sets
\* exercise_content and leaves the loop; a failed read goes on to the next file
RECURSIVE ScanFiles(_, _, _)
ScanFiles(listing, k, content) ==
    IF k > Len(listing) THEN content
    ELSE IF Lower(listing[k].name) \in TaskFileNames /\ listing[k].readable
         THEN listing[k].text
         ELSE ScanFiles(listing, k + 1, content)

\* for root, dirs, files in os.walk("."): stops after the first directory that
\* leaves exercise_content non-empty
RECURSIVE ScanDirs(_, _, _, _)
ScanDirs(tree, order, j, content) ==
    IF j > Len(order) THEN content
    ELSE LET found == ScanFiles(tree[order[j]].files, 1, content)
         IN  IF found # "" THEN found
             ELSE ScanDirs(tree, order, j + 1, found)

LoadTaskDescription(tree) == ScanDirs(tree, Walk(tree, RootDir), 1, "")

-----------------------------------------------------------------------------
(* What the host and the model can answer                                  *)

ShaPrefixLen == 7

\* commit_sha[:7]
ShortSha(sha) == SubSeq(sha, 1, Min(ShaPrefixLen, Len(sha)))

CommitPool ==
    << [ sha |-> <<"a", "b", "c", "1", "2", "3", "4", "d", "e", "f", "0">>, message |-> "add form" ],
       [ sha |-> <<"0", "f", "9", "e", "8", "d", "7", "c", "6", "b", "5">>, message |-> "style form" ],
       [ sha |-> <<"a", "b", "c", "1", "2", "3", "4", "f", "f", "f", "9">>, message |-> "fix labels" ] >>

Reverse(s) == [ i \in DOMAIN s |-> s[Len(s) + 1 - i] ]

\* the commit lists get_pr_commits can return
CommitLists ==
    { SubSeq(CommitPool, 1, n) : n \in 0..Min(MaxCommits, Len(CommitPool)) }

NoPatch == "<absent>"

\* entries of a commit's "files": patch is NoPatch when the key is missing
FileInfos ==
    { [ filename |-> <<"i", "n", "d", "e", "x", ".", "h", "t", "m", "l">>, status |-> "modified", patch |-> "+<label>Name</label>" ],
      [ filename |-> <<"s", "r", "c", "/", "a", "p", "p", ".", "j", "s">>, status |-> "added", patch |-> "+submit()" ],
      [ filename |-> <<"d", "i", "s", "t", "/", "b", "u", "n", "d", "l", "e", ".", "j", "s">>, status |-> "added", patch |-> "+!function(){}" ],
      [ filename |-> <<"s", "t", "y", "l", "e", ".", "c", "s", "s">>, status |-> "renamed", patch |-> NoPatch ] }

\* the "files" lists get_commit_changes can return (a missing key reads as [])
FileLists == InjSeqs(FileInfos, MaxFiles)

\* ai_response.text
AiTexts == { <<" ", "L", "G", "T", "M">> \o <<"\n">>, << >> }

Whitespace == { " ", "\n", "\t", "\r" }

\* str.strip()
RECURSIVE LStrip(_)
LStrip(s) ==
    IF s # << >> /\ Head(s) \in Whitespace THEN LStrip(Tail(s)) ELSE s

Strip(s) == Reverse(LStrip(Reverse(LStrip(s))))

-----------------------------------------------------------------------------
(* main, sections 5 and 6: the per-commit prompt                           *)

\* file_info.get('patch', '')
GetPatch(file_info) ==
    IF file_info.patch = NoPatch THEN "" ELSE file_info.patch

\* the three lines added to changed_content for one file
FileSection(file_info) ==
    [ file |-> file_info.filename,
      status |-> file_info.status,
      changes |-> GetPatch(file_info) ]

\* for file_info in files: changed_content and file_count after the loop
RECURSIVE BuildChangesAnyPatch(_, _, _)
BuildChangesAnyPatch(fl, k, acc) ==
    IF k > Len(fl) THEN acc
    ELSE IF should_ignore_file(fl[k].filename)
         THEN BuildChangesAnyPatch(fl, k + 1, acc)
         ELSE BuildChangesAnyPatch(fl, k + 1,
                  [ changed_content |-> Append(acc.changed_content, FileSection(fl[k])),
                    file_count |-> acc.file_count + 1 ])

RECURSIVE BuildChanges(_, _, _)
BuildChanges(fl, k, acc) ==
    IF k > Len(fl) THEN acc
    ELSE IF should_ignore_file(fl[k].filename)
         THEN BuildChanges(fl, k + 1, acc)
         ELSE IF GetPatch(fl[k]) # ""
              THEN BuildChanges(fl, k + 1,
                       [ changed_content |-> Append(acc.changed_content, FileSection(fl[k])),
                         file_count |-> acc.file_count + 1 ])
              ELSE BuildChanges(fl, k + 1, acc)

NoChanges == [ changed_content |-> << >>, file_count |-> 0 ]

\* if file_count == 0
NoRelevantFilesNever(file_count) == FALSE

NoRelevantFiles(file_count) == file_count = 0

FallbackTask == "<no task description found>"

\* the f-string of section 6, by its three substitutions
BuildPrompt(task, changed_content) ==
    [ task |-> IF task # "" THEN task ELSE FallbackTask,
      changes |-> changed_content,
      resources |-> "LEARNING_RESOURCES" ]

NoPrompt == [ task |-> "", changes |-> << >>, resources |-> "" ]

\* formatted_feedback
FormatFeedback(commit, text) ==
    [ short_sha |-> ShortSha(commit.sha),
      message |-> commit.message,
      feedback |-> Strip(text) ]

\* all_feedback.append(formatted_feedback)
AppendFeedback(feedback_list, entry) == Append(feedback_list, entry)

-----------------------------------------------------------------------------
(* main, section 8, and post_comment                                       *)

Piece(kind, entry) == [ kind |-> kind, entry |-> entry ]

NoEntry == [ short_sha |-> << >>, message |-> "", feedback |-> << >> ]

JoinDroppingLast(feedback_list) ==
    IF Len(feedback_list) <= 1 THEN << >>
    ELSE Flatten([ i \in 1..(Len(feedback_list) - 1) |->
             IF i = 1 THEN << Piece("feedback", feedback_list[i]) >>
             ELSE << Piece("separator", NoEntry), Piece("feedback", feedback_list[i]) >> ])

\* "\n\n---\n\n".join(all_feedback)
Join(feedback_list) ==
    Flatten([ i \in DOMAIN feedback_list |->
        IF i = 1 THEN << Piece("feedback", feedback_list[i]) >>
        ELSE << Piece("separator", NoEntry), Piece("feedback", feedback_list[i]) >> ])

\* combined_feedback
CombinedFeedback(feedback_list) ==
    << Piece("header", NoEntry) >> \o Join(feedback_list) \o << Piece("footer", NoEntry) >>

\* data["body"] of post_comment
CommentBody(body) == << Piece("title", NoEntry) >> \o body

\* if not all_feedback
NoFeedbackNever(feedback_list) == FALSE

NoFeedback(feedback_list) == feedback_list = << >>

\* if not gemini_key or not github_token
ConfigMissingBoth(e) ==
    /\ e.gemini_key \in { None, "" }
    /\ e.github_token \in { None, "" }

ConfigMissing(e) ==
    \/ e.gemini_key \in { None, "" }
    \/ e.github_token \in { None, "" }

\* one entry of the history of network calls
Call(op, at, arg, outcome) ==
    [ op |-> op, at |-> at, arg |-> arg, outcome |-> outcome ]

-----------------------------------------------------------------------------
(* main, step by step; every network call is one step                      *)

\* the trees tried together with whole runs
RunTrees ==
    { DeepTree(<<"s", "r", "c">>, << >>, << >>, l) : l \in { f \in LeafListings : Len(f) <= 1 } }

Init ==
    /\ pc = "setup"
    /\ env \in Envs
    /\ event \in Events
    /\ fs \in RunTrees
    /\ exercise_content = ""
    /\ commits = << >>
    /\ idx = 0
    /\ files = << >>
    /\ prompt = NoPrompt
    /\ all_feedback = << >>
    /\ fb_from = << >>
    /\ calls = << >>
    /\ posted = << >>
    /\ file_path = << >>
    /\ verdict = "unset"

\* section 1: both secrets are required
Setup ==
    /\ pc = "setup"
    /\ pc' = IF ConfigMissing(env) THEN "done" ELSE "read_event"
    /\ UNCHANGED << env, event, fs, exercise_content, commits, idx, files, prompt,
                    all_feedback, fb_from, calls, posted, file_path, verdict >>

\* section 2: open and parse the event payload, look for 'pull_request'
ReadEvent ==
    /\ pc = "read_event"
    /\ pc' = CASE event = "pull_request" -> "context"
               [] event = "push" -> "done"
               [] OTHER -> "crashed"
    /\ UNCHANGED << env, event, fs, exercise_content, commits, idx, files, prompt,
                    all_feedback, fb_from, calls, posted, file_path, verdict >>

\* section 3: walk the working tree for the task description
LoadContext ==
    /\ pc = "context"
    /\ exercise_content' = LoadTaskDescription(fs)
    /\ pc' = "fetch_commits"
    /\ UNCHANGED << env, event, fs, commits, idx, files, prompt,
                    all_feedback, fb_from, calls, posted, file_path, verdict >>

\* section 4: get_pr_commits raises
FetchCommitsFail ==
    /\ pc = "fetch_commits"
    /\ calls' = Append(calls, Call("get_pr_commits", 0, << >>, "raised"))
    /\ pc' = "done"
    /\ UNCHANGED << env, event, fs, exercise_content, commits, idx, files, prompt,
                    all_feedback, fb_from, posted, file_path, verdict >>

\* section 4: get_pr_commits returns; the loop of section 5 starts
FetchCommitsOk ==
    /\ pc = "fetch_commits"
    /\ \E l \in CommitLists : commits' = l
    /\ calls' = Append(calls, Call("get_pr_commits", 0, << >>, "ok"))
    /\ all_feedback' = << >>
    /\ idx' = 1
    /\ pc' = "loop"
    /\ UNCHANGED << env, event, fs, exercise_content, files, prompt,
                    fb_from, posted, file_path, verdict >>

\* section 5: get_commit_changes raises; continue
FetchFilesFailBreak ==
    /\ pc = "loop"
    /\ idx <= Len(commits)
    /\ calls' = Append(calls, Call("get_commit_changes", idx, commits[idx].sha, "raised"))
    /\ idx' = Len(commits) + 1
    /\ UNCHANGED << pc, env, event, fs, exercise_content, commits, files, prompt,
                    all_feedback, fb_from, posted, file_path, verdict >>

FetchFilesFail ==
    /\ pc = "loop"
    /\ idx <= Len(commits)
    /\ calls' = Append(calls, Call("get_commit_changes", idx, commits[idx].sha, "raised"))
    /\ idx' = idx + 1
    /\ UNCHANGED << pc, env, event, fs, exercise_content, commits, files, prompt,
                    all_feedback, fb_from, posted, file_path, verdict >>

\* sections 5 and 6: get_commit_changes returns; filter the files, then either
\* skip the commit or build its prompt
ReviewCommit ==
    /\ pc = "loop"
    /\ idx <= Len(commits)
    /\ calls' = Append(calls, Call("get_commit_changes", idx, commits[idx].sha, "ok"))
    /\ \E fl \in FileLists :
        /\ files' = fl
        /\ LET built == BuildChanges(fl, 1, NoChanges)
           IN  IF NoRelevantFiles(built.file_count)
               THEN /\ idx' = idx + 1
                    /\ pc' = "loop"
                    /\ prompt' = prompt
               ELSE /\ idx' = idx
                    /\ pc' = "generating"
                    /\ prompt' = BuildPrompt(exercise_content, built.changed_content)
    /\ UNCHANGED << env, event, fs, exercise_content, commits,
                    all_feedback, fb_from, posted, file_path, verdict >>

\* section 7: generate_content or .text raises; continue.  prompt is not read
\* again before it is rebuilt, and is cleared here.
GenerateFailBreak ==
    /\ pc = "generating"
    /\ calls' = Append(calls, Call("generate_content", idx, << >>, "raised"))
    /\ idx' = Len(commits) + 1
    /\ pc' = "loop"
    /\ prompt' = NoPrompt
    /\ UNCHANGED << env, event, fs, exercise_content, commits, files,
                    all_feedback, fb_from, posted, file_path, verdict >>

GenerateFail ==
    /\ pc = "generating"
    /\ calls' = Append(calls, Call("generate_content", idx, << >>, "raised"))
    /\ idx' = idx + 1
    /\ pc' = "loop"
    /\ prompt' = NoPrompt
    /\ UNCHANGED << env, event, fs, exercise_content, commits, files,
                    all_feedback, fb_from, posted, file_path, verdict >>

\* section 7: the model answers; its stripped text is appended
GenerateOk ==
    /\ pc = "generating"
    /\ calls' = Append(calls, Call("generate_content", idx, << >>, "ok"))
    /\ \E text \in AiTexts :
        all_feedback' = AppendFeedback(all_feedback, FormatFeedback(commits[idx], text))
    /\ fb_from' = Append(fb_from, idx)
    /\ idx' = idx + 1
    /\ pc' = "loop"
    /\ prompt' = NoPrompt
    /\ UNCHANGED << env, event, fs, exercise_content, commits, files,
                    posted, file_path, verdict >>

\* after the loop: nothing to post
FinishWithoutFeedback ==
    /\ pc = "loop"
    /\ idx > Len(commits)
    /\ NoFeedback(all_feedback)
    /\ pc' = "done"
    /\ UNCHANGED << env, event, fs, exercise_content, commits, idx, files, prompt,
                    all_feedback, fb_from, calls, posted, file_path, verdict >>

\* section 8 and post_comment: requests.post returns a response, 201 or not
PostComment ==
    /\ pc = "loop"
    /\ idx > Len(commits)
    /\ ~NoFeedback(all_feedback)
    /\ posted' = Append(posted, CommentBody(CombinedFeedback(all_feedback)))
    /\ \E outcome \in { "201", "not201" } :
        calls' = Append(calls, Call("post_comment", 0, << >>, outcome))
    /\ pc' = "done"
    /\ UNCHANGED << env, event, fs, exercise_content, commits, idx, files, prompt,
                    all_feedback, fb_from, file_path, verdict >>

\* section 8 and post_comment: requests.post raises; nothing catches it
PostCommentRaises ==
    /\ pc = "loop"
    /\ idx > Len(commits)
    /\ ~NoFeedback(all_feedback)
    /\ posted' = Append(posted, CommentBody(CombinedFeedback(all_feedback)))
    /\ calls' = Append(calls, Call("post_comment", 0, << >>, "raised"))
    /\ pc' = "crashed"
    /\ UNCHANGED << env, event, fs, exercise_content, commits, idx, files, prompt,
                    all_feedback, fb_from, file_path, verdict >>

Next ==
    \/ Setup
    \/ ReadEvent
    \/ LoadContext
    \/ FetchCommitsFail
    \/ FetchCommitsOk
    \/ FetchFilesFail
    \/ ReviewCommit
    \/ GenerateFail
    \/ GenerateOk
    \/ FinishWithoutFeedback
    \/ PostComment
    \/ PostCommentRaises

Spec == Init /\ [][Next]_vars

-----------------------------------------------------------------------------
(* The task description over many working trees                            *)

InitContext ==
    /\ \E n \in SubDirNames, f1 \in DirListings, f2 \in DirListings, f3 \in LeafListings :
           fs \in { FlatTree(n, f1, f2, f3), DeepTree(n, f1, f2, f3) }
    /\ pc = "context"
    /\ env = [ gemini_key |-> "secret", github_token |-> "secret" ]
    /\ event = "pull_request"
    /\ exercise_content = ""
    /\ commits = << >>
    /\ idx = 0
    /\ files = << >>
    /\ prompt = NoPrompt
    /\ all_feedback = << >>
    /\ fb_from = << >>
    /\ calls = << >>
    /\ posted = << >>
    /\ file_path = << >>
    /\ verdict = "unset"

NextContext == LoadContext

SpecContext == InitContext /\ [][NextContext]_vars

-----------------------------------------------------------------------------
(* should_ignore_file over many paths                                      *)

Fragments ==
    { <<"/">>, <<".">>, <<"x">>, <<"b", "i", "n">>, <<"b", "i", "n", "/">>, <<"/", "b", "i", "n", "/">>, <<".", "j", "s">>, <<".", "a", "s", "t", "r", "o">> }

Paths ==
    { Flatten(fr) : fr \in UNION { [1..n -> Fragments] : n \in 0..MaxFrags } }

InitFilter ==
    /\ file_path \in Paths
    /\ pc = "filter"
    /\ env = [ gemini_key |-> "secret", github_token |-> "secret" ]
    /\ event = "pull_request"
    /\ fs \in { DeepTree(<<"s", "r", "c">>, << >>, << >>, << >>) }
    /\ exercise_content = ""
    /\ commits = << >>
    /\ idx = 0
    /\ files = << >>
    /\ prompt = NoPrompt
    /\ all_feedback = << >>
    /\ fb_from = << >>
    /\ calls = << >>
    /\ posted = << >>
    /\ verdict = "unset"

\* one call should_ignore_file(file_path)
IgnoreCheck ==
    /\ pc = "filter"
    /\ verdict' = IF should_ignore_file(file_path) THEN "ignore" ELSE "keep"
    /\ pc' = "filtered"
    /\ UNCHANGED << env, event, fs, exercise_content, commits, idx, files, prompt,
                    all_feedback, fb_from, calls, posted, file_path >>

NextFilter == IgnoreCheck

SpecFilter == InitFilter /\ [][NextFilter]_vars

-----------------------------------------------------------------------------
(* Vocabulary of the properties                                            *)

CallsOf(op) == SelectSeq(calls, LAMBDA c : c.op = op)

Terminal == pc \in { "done", "crashed" }

\* get_pr_commits has returned a commit list
CommitsListed ==
    \E k \in DOMAIN calls : calls[k].op = "get_pr_commits" /\ calls[k].outcome = "ok"

\* the position of the commit that files was fetched for; 0 before any fetch
FilesOf ==
    LET fetched == SelectSeq(calls,
                       LAMBDA c : c.op = "get_commit_changes" /\ c.outcome = "ok")
    IN  IF fetched = << >> THEN 0 ELSE fetched[Len(fetched)].at

\* a changed file that passes the filter and carries patch text
Survives(f) ==
    /\ ~should_ignore_file(f.filename)
    /\ f.patch # NoPatch
    /\ f.patch # ""

AiCalledAt(k) ==
    \E c \in DOMAIN calls : calls[c].op = "generate_content" /\ calls[c].at = k

AiRaisedAt(k) ==
    \E c \in DOMAIN calls :
        /\ calls[c].op = "generate_content"
        /\ calls[c].at = k
        /\ calls[c].outcome = "raised"

\* the feedback entries of a posted body, in the order they stand in it
FeedbackPieces(body) ==
    LET kept == SelectSeq(body, LAMBDA p : p.kind = "feedback")
    IN  [ i \in DOMAIN kept |-> kept[i].entry ]

\* an entry carrying a commit's short identifier and message
EntryOf(entry, commit) ==
    /\ entry.short_sha = ShortSha(commit.sha)
    /\ entry.message = commit.message

-----------------------------------------------------------------------------
(* C1: once the commit list of length N is returned, the get-commit-detail *)
(* calls are one per commit, in list order, N of them when the run ends;   *)
(* there are at most N feedback entries, each of a commit of the list, in  *)
(* the relative order of their commits.                                    *)

C1_OneDetailCallPerCommitInOrder ==
    CommitsListed =>
        LET detail == CallsOf("get_commit_changes")
            N == Len(commits)
        IN  /\ Len(detail) <= N
            /\ Terminal => Len(detail) = N
            /\ \A k \in DOMAIN detail :
                   detail[k].at = k /\ detail[k].arg = commits[k].sha
            /\ Len(all_feedback) <= N
            /\ Len(fb_from) = Len(all_feedback)
            /\ \A j \in DOMAIN all_feedback :
                   /\ fb_from[j] \in 1..N
                   /\ EntryOf(all_feedback[j], commits[fb_from[j]])
            /\ \A i, j \in DOMAIN fb_from : i < j => fb_from[i] < fb_from[j]

C1_Witness ==
    /\ pc = "done"
    /\ Len(commits) >= 2
    /\ Len(all_feedback) >= 2
    /\ \E c \in DOMAIN calls : calls[c].op = "post_comment"

(* C2: with the AI key or the host token unset or empty, the run makes no  *)
(* network call at all and never gets past the setup.                      *)

C2_NoNetworkCallWithoutSecrets ==
    (env.gemini_key \in { None, "" } \/ env.github_token \in { None, "" }) =>
        /\ calls = << >>
        /\ posted = << >>
        /\ pc \in { "setup", "done" }

C2_Witness ==
    /\ pc = "done"
    /\ env.gemini_key = None
    /\ env.github_token = "secret"

(* C3: a commit none of whose changed files passes the filter with patch   *)
(* text gets no AI-generation call and no feedback entry.                  *)

C3_NoAiCallWithoutSurvivingFile ==
    LET k == FilesOf
    IN  (k # 0 /\ \A i \in DOMAIN files : ~Survives(files[i])) =>
            /\ ~AiCalledAt(k)
            /\ ~(pc = "generating" /\ idx = k)
            /\ \A j \in DOMAIN fb_from : fb_from[j] # k

C3_Witness ==
    /\ pc = "done"
    /\ FilesOf = Len(commits)
    /\ Len(files) = 2
    /\ \A i \in DOMAIN files : ~Survives(files[i])
    /\ \E i \in DOMAIN files : ~should_ignore_file(files[i].filename)
    /\ \E i \in DOMAIN files : should_ignore_file(files[i].filename)

(* C4: when the AI call raises for a commit, that step leaves the feedback *)
(* list as it was and moves on to the next commit; no entry of that commit *)
(* is collected or posted, and the commit after it is still fetched.       *)

C4_StateAfterAiFailure ==
    \A k \in DOMAIN commits :
        (CommitsListed /\ AiRaisedAt(k)) =>
            /\ \A j \in DOMAIN fb_from : fb_from[j] # k
            /\ \A b \in DOMAIN posted :
                   \A e \in DOMAIN FeedbackPieces(posted[b]) :
                       ~EntryOf(FeedbackPieces(posted[b])[e], commits[k])
            /\ (Terminal /\ k < Len(commits)) =>
                   \E c \in DOMAIN calls :
                       calls[c].op = "get_commit_changes" /\ calls[c].at = k + 1

C4_AiFailureStep ==
    (/\ pc = "generating"
     /\ calls' = Append(calls, Call("generate_content", idx, << >>, "raised"))) =>
        /\ all_feedback' = all_feedback
        /\ fb_from' = fb_from
        /\ idx' = idx + 1
        /\ pc' = "loop"

C4_AiFailureSkipsOnlyThatCommit ==
    [](C4_StateAfterAiFailure) /\ [][C4_AiFailureStep]_vars

C4_Witness ==
    /\ pc = "done"
    /\ Len(commits) = 2
    /\ AiRaisedAt(1)
    /\ fb_from = <<2>>
    /\ Len(posted) = 1

(* C5: while the feedback list is empty, nothing is posted; a run that     *)
(* ends with an empty list has made no post_comment call.                  *)

C5_NoPostWithoutFeedback ==
    all_feedback = << >> =>
        /\ posted = << >>
        /\ CallsOf("post_comment") = << >>

C5_Witness ==
    /\ pc = "done"
    /\ CommitsListed
    /\ Len(commits) >= 1
    /\ all_feedback = << >>
    /\ AiRaisedAt(1)

(* C6: should_ignore_file(P) is true exactly when some "/"-separated       *)
(* segment of P is a name of IGNORE_DIRS, or P's extension is absent or    *)
(* not in SUPPORTED_EXTENSIONS.  The extension is the one os.path.splitext *)
(* speaks of: the last segment's suffix from its last dot, absent when     *)
(* only dots precede that dot.                                             *)

RECURSIVE Segments(_)
Segments(p) ==
    IF \A i \in DOMAIN p : p[i] # "/" THEN << p >>
    ELSE LET cut == CHOOSE i \in DOMAIN p :
                        p[i] = "/" /\ \A j \in 1..(i - 1) : p[j] # "/"
         IN  << SubSeq(p, 1, cut - 1) >> \o Segments(SubSeq(p, cut + 1, Len(p)))

HasIgnoredSegment(p) ==
    \E s \in DOMAIN Segments(p) : Segments(p)[s] \in IGNORE_DIRS

ExtensionOf(p) ==
    LET name == Segments(p)[Len(Segments(p))]
        dots == { i \in DOMAIN name : name[i] = "." }
    IN  IF dots = {} THEN << >>
        ELSE LET last == CHOOSE i \in dots : \A j \in dots : j <= i
             IN  IF \A k \in 1..(last - 1) : name[k] = "." THEN << >>
                 ELSE SubSeq(name, last, Len(name))

C6_IgnoredIffDeniedSegmentOrBadExtension ==
    verdict # "unset" =>
        (verdict = "ignore" <=>
            \/ HasIgnoredSegment(file_path)
            \/ ExtensionOf(file_path) = << >>
            \/ ExtensionOf(file_path) \notin SUPPORTED_EXTENSIONS)

C6_Witness ==
    /\ verdict = "ignore"
    /\ HasIgnoredSegment(file_path)
    /\ ExtensionOf(file_path) \in SUPPORTED_EXTENSIONS
    /\ Len(Segments(file_path)) >= 3

(* C7: the prompt handed to the AI call holds one section per changed file *)
(* of the commit under review that passes the filter and has non-empty     *)
(* patch text, and no other section, in the order the host listed them.    *)

C7_PromptHoldsExactlySurvivingFiles ==
    pc = "generating" =>
        LET kept == SelectSeq(files, Survives)
        IN  /\ FilesOf = idx
            /\ prompt.changes =
                   [ i \in DOMAIN kept |->
                       [ file |-> kept[i].filename,
                         status |-> kept[i].status,
                         changes |-> kept[i].patch ] ]

C7_Witness ==
    /\ pc = "generating"
    /\ idx = 2
    /\ Len(files) = 2
    /\ Len(prompt.changes) = 1
    /\ \E i \in DOMAIN files :
           files[i].patch = NoPatch /\ ~should_ignore_file(files[i].filename)

(* C8: a post that does not end in a 201 response, a raised request        *)
(* included, leaves the run completing normally, and is not retried.       *)

C8_FailedPostIsNotFatal ==
    /\ Len(CallsOf("post_comment")) <= 1
    /\ (\E c \in DOMAIN calls :
            calls[c].op = "post_comment" /\ calls[c].outcome # "201") => pc = "done"

(* C9: a run that collected feedback posts once, after the last commit,    *)
(* with no call after the post; the body holds the collected entries, each *)
(* once, in collection order, all of commits whose AI call succeeded.      *)

C9_OnePostAfterLoopWithAllFeedback ==
    /\ \A c \in DOMAIN calls : calls[c].op = "post_comment" => c = Len(calls)
    /\ Len(posted) = Len(CallsOf("post_comment"))
    /\ Len(posted) <= 1
    /\ (Terminal /\ all_feedback # << >>) => Len(posted) = 1
    /\ \A b \in DOMAIN posted :
           /\ FeedbackPieces(posted[b]) = all_feedback
           /\ Len(CallsOf("get_commit_changes")) = Len(commits)
           /\ idx = Len(commits) + 1
    /\ \A j \in DOMAIN fb_from :
           \E c \in DOMAIN calls :
               /\ calls[c].op = "generate_content"
               /\ calls[c].at = fb_from[j]
               /\ calls[c].outcome = "ok"

C9_Witness ==
    /\ pc = "done"
    /\ Len(commits) = 2
    /\ Len(all_feedback) = 1
    /\ Len(posted) = 1
    /\ \E c \in DOMAIN calls : calls[c].outcome = "201"

(* C10, as stated: the task context is the text of the first matching file *)
(* of the pruned top-down traversal, and is empty when there is none or    *)
(* when reading it fails; loading never ends the run.                      *)

NameMatches(f) == Lower(f.name) \in TaskFileNames

\* the directory holding d
ParentOf(tree, d) ==
    CHOOSE p \in DOMAIN tree : \E i \in DOMAIN tree[p].dirs : tree[p].dirs[i] = d

\* d is the root, or d and every directory above it below the root is not denylisted
RECURSIVE NotPruned(_, _)
NotPruned(tree, d) ==
    \/ d = RootDir
    \/ /\ tree[d].name \notin IGNORE_DIRS
       /\ NotPruned(tree, ParentOf(tree, d))

\* every directory, top-down in listing order
RECURSIVE PreOrder(_, _)
PreOrder(tree, d) ==
    << d >> \o Flatten([ i \in DOMAIN tree[d].dirs |-> PreOrder(tree, tree[d].dirs[i]) ])

VisitOrder(tree) ==
    SelectSeq(PreOrder(tree, RootDir), LAMBDA d : NotPruned(tree, d))

\* the matching files in traversal order
MatchingFiles(tree) ==
    LET order == VisitOrder(tree)
    IN  Flatten([ j \in DOMAIN order |-> SelectSeq(tree[order[j]].files, NameMatches) ])

C10_FirstMatchOrEmpty ==
    pc = "fetch_commits" =>
        LET found == MatchingFiles(fs)
        IN  exercise_content =
                IF found = << >> THEN ""
                ELSE IF found[1].readable THEN found[1].text
                ELSE ""

(* C10, amended: in each visited directory the candidate is the first      *)
(* matching file whose read succeeds; the task context is the text of the  *)
(* first non-empty candidate in traversal order, and is empty when there   *)
(* is none; loading never ends the run.                                    *)

\* the candidates, one per visited directory that has one, in traversal order
Candidates(tree) ==
    LET order == VisitOrder(tree)
        readable(d) == SelectSeq(tree[d].files, LAMBDA f : NameMatches(f) /\ f.readable)
    IN  Flatten([ j \in DOMAIN order |->
            IF readable(order[j]) = << >> THEN << >>
            ELSE << readable(order[j])[1] >> ])

C10_FirstNonEmptyCandidate ==
    /\ pc # "crashed"
    /\ pc = "fetch_commits" =>
        LET nonEmpty == SelectSeq(Candidates(fs), LAMBDA f : f.text # "")
        IN  exercise_content = IF nonEmpty = << >> THEN "" ELSE nonEmpty[1].text

C10_Witness ==
    /\ pc = "fetch_commits"
    /\ exercise_content # ""
    /\ MatchingFiles(fs) # << >>
    /\ ~MatchingFiles(fs)[1].readable
    /\ \E d \in DOMAIN fs : fs[d].name \in IGNORE_DIRS /\ fs[d].files # << >>


====
